---- MODULE Spec2Model ----
(***************************************************************************)
(* Model of the spreadsheet ingestion pipeline of gmaps-tpdb:              *)
(*   core/excel.py   get_columns, field, split_list,                       *)
(*                   create_formula_mass_models, import_excel_data,        *)
(*                   import_excel, process_upload, process_pending         *)
(*   core/utils.py   clear_data, generate_and_save_molecule_image          *)
(*   core/models.py  Class, Subclass, Treatment, Reference, FormulaMass,   *)
(*                   Compound, ExcelUpload                                 *)
(*   core/management/commands/import_excel.py, process_pending_imports.py  *)
(*   core/admin.py   the admin's uploads and deletions                     *)
(*                                                                         *)
(* Text is a sequence of one-character strings, so that strip() and        *)
(* split(";") are computed and not assumed.  A worksheet cell is either    *)
(* None or a text.  A database row is a record with an id; a table is a    *)
(* set of rows; many-to-many links are kept on the Compound row.           *)
(***************************************************************************)
EXTENDS Integers, Sequences, FiniteSets, TLC

(***************************************************************************)
(* Text and cells                                                          *)
(***************************************************************************)
\* statement sequencing: the value v of one statement, computed once, then
\* the rest of the body F on it
Then(v, F(_)) ==
  CHOOSE y \in {F(x) : x \in {v}} : TRUE

RECURSIVE lstrip(_)
lstrip(s) ==
  IF s # <<>> /\ Head(s) = " " THEN lstrip(Tail(s)) ELSE s

RECURSIVE rstrip(_)
rstrip(s) ==
  IF s # <<>> /\ s[Len(s)] = " " THEN rstrip(SubSeq(s, 1, Len(s) - 1)) ELSE s

\* str.strip()
strip(s) ==
  rstrip(lstrip(s))

\* str.split(sep): always at least one part, empty parts are kept
RECURSIVE split(_, _)
split(s, sep) ==
  IF \E i \in 1..Len(s) : s[i] = sep
  THEN LET i == CHOOSE k \in 1..Len(s) :
                  s[k] = sep /\ \A j \in 1..(k - 1) : s[j] # sep
       IN  <<SubSeq(s, 1, i - 1)>>
             \o Then(SubSeq(s, i + 1, Len(s)), LAMBDA rest : split(rest, sep))
  ELSE <<s>>

\* [name.strip() for name in text.split(";") if name.strip()]
split_list(text) ==
  LET parts == split(text, ";")
      stripped == [i \in 1..Len(parts) |-> strip(parts[i])]
  IN  SelectSeq(stripped, LAMBDA n : n # <<>>)

\* an empty worksheet cell (openpyxl yields None)
None ==
  [none |-> TRUE, s |-> <<>>]

\* a worksheet cell holding the text s
Str(s) ==
  [none |-> FALSE, s |-> s]

\* Python truthiness of a cell value: None and "" are falsy
truthy(cell) ==
  ~cell.none /\ cell.s # <<>>

\* str(value): str(None) is the text "None"
str(cell) ==
  IF cell.none THEN <<"N", "o", "n", "e">> ELSE cell.s

\* field(row, col) for a column that the header has
field(row, col) ==
  IF truthy(row[col]) THEN strip(str(row[col])) ELSE <<>>

\* value or ""
or_empty(cell) ==
  IF truthy(cell) THEN cell.s ELSE <<>>

(***************************************************************************)
(* Header names (after str(v).strip().lower()) and the Columns record      *)
(***************************************************************************)
\* the column get_columns found no header for
NoCol ==
  "None"

\* range(1, 11)
FragmentNumbers ==
  1..10

FragmentHeader ==
  <<"fragment 1", "fragment 2", "fragment 3", "fragment 4", "fragment 5",
    "fragment 6", "fragment 7", "fragment 8", "fragment 9", "fragment 10">>

MzFragmentHeader ==
  <<"m/z fragment 1", "m/z fragment 2", "m/z fragment 3", "m/z fragment 4",
    "m/z fragment 5", "m/z fragment 6", "m/z fragment 7", "m/z fragment 8",
    "m/z fragment 9", "m/z fragment 10">>

\* col_nums.get(name)
col_get(header, name) ==
  IF name \in header THEN name ELSE NoCol

\* the Columns dataclass built by get_columns
MakeColumns(header) ==
  [clas       |-> col_get(header, "compound class"),
   subclass   |-> col_get(header, "subclass"),
   treatment  |-> col_get(header, "treatment"),
   origin     |-> col_get(header, "parent compound"),
   type       |-> col_get(header, "type"),
   mode       |-> col_get(header, "ionization mode"),
   name       |-> col_get(header, "compound"),
   neutral    |-> col_get(header, "molecular formula [m]"),
   mz         |-> col_get(header, "m/z ion"),
   reference  |-> col_get(header, "references"),
   smile      |-> col_get(header, "smile neutral formula"),
   notes      |-> col_get(header, "notes"),
   formula_mz |-> [i \in FragmentNumbers |->
                     [formula |-> col_get(header, FragmentHeader[i]),
                      mz      |-> col_get(header, MzFragmentHeader[i])]]]

\* Columns.valid()
valid(columns) ==
  NoCol \notin {columns.name, columns.clas, columns.subclass, columns.type,
                columns.mode, columns.neutral, columns.mz, columns.smile,
                columns.reference, columns.notes}

NoErr ==
  "ok"

\* get_columns(ws): the Columns, or the "Missing required columns" exception
get_columns(ws) ==
  LET columns == MakeColumns(ws.header)
  IN  [columns |-> columns,
       err     |-> IF valid(columns) THEN NoErr ELSE "MissingColumns"]

(***************************************************************************)
(* The Normalized Store (core/models.py)                                   *)
(***************************************************************************)
\* a null foreign key, and the None stored in the treatments/references maps
NoId ==
  0

EmptyStore ==
  [Class |-> {}, Subclass |-> {}, Treatment |-> {}, Reference |-> {},
   FormulaMass |-> {}, Compound |-> {}, seq |-> 0]

\* the rows and links of the store, without the id generator
Records(db) ==
  [Class |-> db.Class, Subclass |-> db.Subclass, Treatment |-> db.Treatment,
   Reference |-> db.Reference, FormulaMass |-> db.FormulaMass,
   Compound |-> db.Compound]

\* number of rows of every entity
RowCounts(db) ==
  [Class |-> Cardinality(db.Class), Subclass |-> Cardinality(db.Subclass),
   Treatment |-> Cardinality(db.Treatment),
   Reference |-> Cardinality(db.Reference),
   FormulaMass |-> Cardinality(db.FormulaMass),
   Compound |-> Cardinality(db.Compound)]

TotalRows(db) ==
  Cardinality(db.Class) + Cardinality(db.Subclass)
  + Cardinality(db.Treatment) + Cardinality(db.Reference)
  + Cardinality(db.FormulaMass) + Cardinality(db.Compound)

\* Model.objects.get_or_create(**kwargs): get, else create
\* (found: the rows get() matches; row: the row create() inserts, which the
\*  unique constraints reject when conflict holds)
get_or_create(db, table, found, row, conflict) ==
  IF Cardinality(found) > 1
  THEN [db |-> db, obj |-> NoId, created |-> FALSE,
        err |-> "MultipleObjectsReturned"]
  ELSE IF found # {}
  THEN [db |-> db, obj |-> (CHOOSE o \in found : TRUE).id, created |-> FALSE,
        err |-> NoErr]
  ELSE IF conflict
  THEN [db |-> db, obj |-> NoId, created |-> FALSE, err |-> "IntegrityError"]
  ELSE [db |-> [db EXCEPT ![table] = @ \cup {row}, !.seq = row.id],
        obj |-> row.id, created |-> TRUE, err |-> NoErr]

\* Class.objects.get_or_create(name=c); name is unique
Class_get_or_create(db, c) ==
  get_or_create(db, "Class", {o \in db.Class : o.name = c},
                [id |-> db.seq + 1, name |-> c],
                \E o \in db.Class : o.name = c)

\* Subclass.objects.get_or_create(name=s, clas=clas); name alone is unique
Subclass_get_or_create(db, s, clas) ==
  get_or_create(db, "Subclass",
                {o \in db.Subclass : o.name = s /\ o.clas = clas},
                [id |-> db.seq + 1, name |-> s, clas |-> clas],
                \E o \in db.Subclass : o.name = s)

\* Treatment.objects.get_or_create(name=treatment_name); name is unique
Treatment_get_or_create(db, n) ==
  get_or_create(db, "Treatment", {o \in db.Treatment : o.name = n},
                [id |-> db.seq + 1, name |-> n],
                \E o \in db.Treatment : o.name = n)

\* Reference.objects.get_or_create(value=reference_value); no unique constraint
Reference_get_or_create(db, v) ==
  get_or_create(db, "Reference", {o \in db.Reference : o.value = v},
                [id |-> db.seq + 1, value |-> v], FALSE)

\* FormulaMass.objects.create in place of get_or_create: always a new row
FormulaMass_create(db, f, m) ==
  get_or_create(db, "FormulaMass", {},
                [id |-> db.seq + 1, formula |-> f, mass |-> m], FALSE)

\* FormulaMass.objects.get_or_create(formula=.., mass=..); no unique constraint
FormulaMass_get_or_create(db, f, m) ==
  get_or_create(db, "FormulaMass",
                {o \in db.FormulaMass : o.formula = f /\ o.mass = m},
                [id |-> db.seq + 1, formula |-> f, mass |-> m], FALSE)

\* the keyword arguments of Compound.objects.get_or_create
CompoundKey(o) ==
  [origin |-> o.origin, clas |-> o.clas, subclass |-> o.subclass,
   type |-> o.type, mode |-> o.mode, name |-> o.name,
   neutral_formula |-> o.neutral_formula, mz_ion |-> o.mz_ion,
   smile |-> o.smile, notes |-> o.notes]

\* Compound.objects.create in place of get_or_create: always a new row
Compound_create(db, kw) ==
  get_or_create(db, "Compound", {},
                [id |-> db.seq + 1, origin |-> kw.origin, clas |-> kw.clas,
                 subclass |-> kw.subclass, type |-> kw.type, mode |-> kw.mode,
                 name |-> kw.name, neutral_formula |-> kw.neutral_formula,
                 mz_ion |-> kw.mz_ion, smile |-> kw.smile, notes |-> kw.notes,
                 treatment |-> {}, references |-> {}, formulas |-> {},
                 molecule_image |-> FALSE], FALSE)

\* Compound.objects.get_or_create(origin=.., clas=.., ..., notes=..)
Compound_get_or_create(db, kw) ==
  get_or_create(db, "Compound", {o \in db.Compound : CompoundKey(o) = kw},
                [id |-> db.seq + 1, origin |-> kw.origin, clas |-> kw.clas,
                 subclass |-> kw.subclass, type |-> kw.type, mode |-> kw.mode,
                 name |-> kw.name, neutral_formula |-> kw.neutral_formula,
                 mz_ion |-> kw.mz_ion, smile |-> kw.smile, notes |-> kw.notes,
                 treatment |-> {}, references |-> {}, formulas |-> {},
                 molecule_image |-> FALSE], FALSE)

\* the stored Compound with primary key id
CompoundById(db, id) ==
  CHOOSE o \in db.Compound : o.id = id

\* rewrite the stored Compound id with row
PutCompound(db, id, row) ==
  [db EXCEPT !.Compound = (@ \ {o \in @ : o.id = id}) \cup {row}]

\* clear_data() that deletes the Compounds and leaves the lookup entities
clear_data_compounds_only(db) ==
  [db EXCEPT !.Compound = {}]

\* clear_data(): delete every row of the six entities
clear_data(db) ==
  [db EXCEPT !.Compound = {}, !.FormulaMass = {}, !.Treatment = {},
             !.Reference = {}, !.Subclass = {}, !.Class = {}]

\* the Compounds deleted with the Compounds ids: those whose origin
\* (on_delete=CASCADE) is among them, and so on
RECURSIVE origin_cascade(_, _)
origin_cascade(db, ids) ==
  LET more == {o.id : o \in {x \in db.Compound : x.origin \in ids}}
  IN  IF more \subseteq ids THEN ids ELSE origin_cascade(db, ids \cup more)

\* Class.delete() with the Compound.origin foreign key left out of the
\* cascade
delete_class_keep_products(db, c) ==
  LET subs == {s.id : s \in {x \in db.Subclass : x.clas = c}}
      gone == {o.id : o \in {x \in db.Compound :
                                x.clas = c \/ x.subclass \in subs}}
  IN  [db EXCEPT !.Class = {x \in @ : x.id # c},
                 !.Subclass = {x \in @ : x.id \notin subs},
                 !.Compound = {x \in @ : x.id \notin gone}]

\* Class.delete(): the row c and, by on_delete=CASCADE, its Subclasses, the
\* Compounds of the Class or of these Subclasses, and the Compounds whose
\* origin is deleted
delete_class(db, c) ==
  LET subs == {s.id : s \in {x \in db.Subclass : x.clas = c}}
      gone == origin_cascade(db, {o.id : o \in {x \in db.Compound :
                                        x.clas = c \/ x.subclass \in subs}})
  IN  [db EXCEPT !.Class = {x \in @ : x.id # c},
                 !.Subclass = {x \in @ : x.id \notin subs},
                 !.Compound = {x \in @ : x.id \notin gone}]

Ids(table) ==
  {o.id : o \in table}

(***************************************************************************)
(* The Structure Renderer (core/utils.py)                                  *)
(***************************************************************************)
\* generate_and_save_molecule_image without the RDKIT_AVAILABLE test and
\* without the try/except: a renderer failure is raised to the caller
generate_and_save_molecule_image_raising(compound, renderer, force_regenerate) ==
  IF compound.smile = <<>>
  THEN [ok |-> FALSE, image |-> compound.molecule_image, err |-> NoErr,
        called |-> FALSE]
  ELSE IF compound.molecule_image /\ ~force_regenerate
  THEN [ok |-> TRUE, image |-> TRUE, err |-> NoErr, called |-> FALSE]
  ELSE IF ~renderer.available \/ compound.smile \notin renderer.parses
  THEN [ok |-> FALSE, image |-> compound.molecule_image,
        err |-> "RenderError", called |-> TRUE]
  ELSE [ok |-> TRUE, image |-> TRUE, err |-> NoErr, called |-> TRUE]

\* generate_and_save_molecule_image without the test of lines 45-48: an
\* existing image is rendered again
generate_and_save_molecule_image_always(compound, renderer, force_regenerate) ==
  IF ~renderer.available
  THEN [ok |-> FALSE, image |-> compound.molecule_image, err |-> NoErr,
        called |-> FALSE]
  ELSE IF compound.smile = <<>>
  THEN [ok |-> FALSE, image |-> compound.molecule_image, err |-> NoErr,
        called |-> FALSE]
  ELSE IF compound.smile \notin renderer.parses
  THEN [ok |-> FALSE, image |-> compound.molecule_image, err |-> NoErr,
        called |-> TRUE]
  ELSE [ok |-> TRUE, image |-> TRUE, err |-> NoErr, called |-> TRUE]

\* generate_and_save_molecule_image(compound, force_regenerate=...):
\* ok is the returned bool, image the molecule_image field afterwards, err
\* the exception it raises (none: lines 78-83 catch what the renderer raises),
\* called whether Chem.MolFromSmiles was reached (line 51).
\* renderer.available is RDKIT_AVAILABLE, renderer.parses the structure
\* strings Chem.MolFromSmiles and Draw.MolToImage accept.
generate_and_save_molecule_image(compound, renderer, force_regenerate) ==
  IF ~renderer.available
  THEN [ok |-> FALSE, image |-> compound.molecule_image, err |-> NoErr,
        called |-> FALSE]
  ELSE IF compound.smile = <<>>
  THEN [ok |-> FALSE, image |-> compound.molecule_image, err |-> NoErr,
        called |-> FALSE]
  ELSE IF compound.molecule_image /\ ~force_regenerate
  THEN [ok |-> TRUE, image |-> TRUE, err |-> NoErr, called |-> FALSE]
  ELSE IF compound.smile \notin renderer.parses
  THEN [ok |-> FALSE, image |-> compound.molecule_image, err |-> NoErr,
        called |-> TRUE]
  ELSE [ok |-> TRUE, image |-> TRUE, err |-> NoErr, called |-> TRUE]

\* Command.handle of regenerate_molecules on store db: the store it leaves
\* and the Compounds the renderer was called for (compound_id NoId: the
\* option is not given)
regenerate_molecules(db, force, compound_id, missing_only, renderer) ==
  LET with_smile == {o \in db.Compound : o.smile # <<>>}
      by_id == IF compound_id # NoId
               THEN {o \in with_smile : o.id = compound_id}
               ELSE with_smile
      queryset == IF missing_only /\ ~force
                  THEN {o \in by_id : ~o.molecule_image}
                  ELSE by_id
      skipped(o) == o.molecule_image /\ ~force /\ ~missing_only
      gen(o) == generate_and_save_molecule_image(o, renderer, force)
      after(o) == IF o \notin queryset \/ skipped(o) \/ ~gen(o).ok THEN o
                  ELSE [o EXCEPT !.molecule_image = gen(o).image]
  IN  IF by_id = {} /\ compound_id # NoId
      THEN [db |-> db, rendered |-> {}]
      ELSE [db |-> [db EXCEPT !.Compound = {after(o) : o \in @}],
            rendered |-> {o.id : o \in {x \in queryset :
                                          ~skipped(x) /\ gen(x).called}}]

(***************************************************************************)
(* The Ingestion Engine (core/excel.py)                                    *)
(***************************************************************************)
T_original ==
  <<"o", "r", "i", "g", "i", "n", "a", "l">>

T_positive ==
  <<"p", "o", "s", "i", "t", "i", "v", "e">>

T_positivo ==
  <<"p", "o", "s", "i", "t", "i", "v", "o">>

\* d[k] = v on a dict, which keeps the position of a key it already has
dict_set(d, k, v) ==
  IF \E i \in 1..Len(d) : d[i].key = k
  THEN [i \in 1..Len(d) |-> IF d[i].key = k THEN [key |-> k, val |-> v]
                            ELSE d[i]]
  ELSE Append(d, [key |-> k, val |-> v])

\* d.get(k), None when absent
dict_get(d, k, default) ==
  IF \E i \in 1..Len(d) : d[i].key = k
  THEN d[CHOOSE i \in 1..Len(d) : d[i].key = k].val
  ELSE default

\* {}
EmptyMap ==
  [k \in {} |-> NoId]

\* the local variables of import_excel_data at its start, on store db
ImportStart(db) ==
  [db |-> db,
   classes |-> EmptyMap,
   subclasses |-> EmptyMap,
   treatments |-> (<<"-">> :> NoId) @@ (<<>> :> NoId),
   references |-> (<<"-">> :> NoId) @@ (<<>> :> NoId),
   originals |-> <<>>,
   tps |-> <<>>,
   total_count |-> 0,
   rendered |-> {},
   err |-> NoErr]

Raise(st, e) ==
  [st EXCEPT !.err = e]

\* total_count += 1 if created
Counted(st, g) ==
  [st EXCEPT !.db = g.db,
             !.total_count = @ + (IF g.created THEN 1 ELSE 0)]

\* lines 151-157
HarvestClass(st, r, columns) ==
  LET c == field(r, columns.clas)
  IN  IF c # <<>> /\ c \notin DOMAIN st.classes
      THEN Then(Class_get_or_create(st.db, c), LAMBDA g :
             IF g.err # NoErr THEN Raise(st, g.err)
             ELSE [Counted(st, g) EXCEPT !.classes = (c :> g.obj) @@ @])
      ELSE st

\* lines 159-165
HarvestSubclass(st, r, columns) ==
  LET c == field(r, columns.clas)
      s == field(r, columns.subclass)
  IN  IF s # <<>> /\ s \notin DOMAIN st.subclasses
      THEN IF c \notin DOMAIN st.classes THEN Raise(st, "KeyError")
           ELSE Then(Subclass_get_or_create(st.db, s, st.classes[c]), LAMBDA g :
                  IF g.err # NoErr THEN Raise(st, g.err)
                  ELSE [Counted(st, g) EXCEPT
                          !.subclasses = (s :> g.obj) @@ @])
      ELSE st

\* lines 167-173, over the names still to handle
RECURSIVE HarvestTreatments(_, _)
HarvestTreatments(st, names) ==
  IF names = <<>> \/ st.err # NoErr THEN st
  ELSE LET n == Head(names)
       IN  IF n \notin DOMAIN st.treatments
           THEN Then(Treatment_get_or_create(st.db, n), LAMBDA g :
                  IF g.err # NoErr THEN Raise(st, g.err)
                  ELSE Then([Counted(st, g) EXCEPT
                               !.treatments = (n :> g.obj) @@ @],
                            LAMBDA s1 : HarvestTreatments(s1, Tail(names))))
           ELSE HarvestTreatments(st, Tail(names))

\* lines 175-181, over the values still to handle
RECURSIVE HarvestReferences(_, _)
HarvestReferences(st, values) ==
  IF values = <<>> \/ st.err # NoErr THEN st
  ELSE LET v == Head(values)
       IN  IF v \notin DOMAIN st.references
           THEN Then(Reference_get_or_create(st.db, v), LAMBDA g :
                  IF g.err # NoErr THEN Raise(st, g.err)
                  ELSE Then([Counted(st, g) EXCEPT
                               !.references = (v :> g.obj) @@ @],
                            LAMBDA s1 : HarvestReferences(s1, Tail(values))))
           ELSE HarvestReferences(st, Tail(values))

\* lines 183-189; row[None] for a missing optional column is a TypeError
Partition(st, r, columns) ==
  IF columns.origin = NoCol THEN Raise(st, "TypeError")
  ELSE LET origin == field(r, columns.origin)
           name == field(r, columns.name)
       IN  IF field(r, columns.type) = T_original
           THEN [st EXCEPT !.originals = dict_set(@, origin, [r |-> r, obj |-> NoId])]
           ELSE [st EXCEPT !.tps = dict_set(@, name, [r |-> r, obj |-> NoId])]

\* one iteration of the loop of lines 147-189 (col0 is the header of index 0)
Pass1Row(st, r, columns, col0) ==
  IF r[col0].none THEN st
  ELSE
  Then(HarvestClass(st, r, columns), LAMBDA s1 :
    IF s1.err # NoErr THEN s1 ELSE
  Then(HarvestSubclass(s1, r, columns), LAMBDA s2 :
    IF s2.err # NoErr THEN s2
    ELSE IF columns.treatment = NoCol THEN Raise(s2, "TypeError") ELSE
  Then(split_list(field(r, columns.treatment)), LAMBDA names :
  Then(HarvestTreatments(s2, names), LAMBDA s3 :
    IF s3.err # NoErr THEN s3 ELSE
  Then(split_list(field(r, columns.reference)), LAMBDA values :
  Then(HarvestReferences(s3, values), LAMBDA s4 :
    IF s4.err # NoErr THEN s4 ELSE Partition(s4, r, columns)))))))

RECURSIVE Pass1(_, _, _, _)

\* the loop of lines 147-189 with break in place of continue: a row whose
\* first cell is None ends the scan
Pass1_stops_at_blank(st, ws, columns, i) ==
  IF i > Len(ws.rows) \/ st.err # NoErr THEN st
  ELSE IF ws.rows[i][ws.col0].none THEN st
  ELSE Then(Pass1Row(st, ws.rows[i], columns, ws.col0), LAMBDA s1 :
         Pass1(s1, ws, columns, i + 1))

\* the loop of lines 147-189 from row i on
Pass1(st, ws, columns, i) ==
  IF i > Len(ws.rows) \/ st.err # NoErr THEN st
  ELSE Then(Pass1Row(st, ws.rows[i], columns, ws.col0), LAMBDA s1 :
         Pass1(s1, ws, columns, i + 1))

\* create_formula_mass_models(row, columns), from fragment pair i on:
\* objs is the returned list, db the store after the get-or-creates
RECURSIVE create_formula_mass_models(_, _, _, _, _)
create_formula_mass_models(db, row, columns, i, objs) ==
  IF i \notin FragmentNumbers THEN [db |-> db, objs |-> objs, err |-> NoErr]
  ELSE LET formula == columns.formula_mz[i].formula
           mz == columns.formula_mz[i].mz
       IN  IF formula = NoCol \/ mz = NoCol
           THEN create_formula_mass_models(db, row, columns, i + 1, objs)
           ELSE LET formula_value == field(row, formula)
                    mz_value == strip(str(row[mz]))
                IN  IF ~(formula_value # <<>> /\ mz_value # <<>>)
                    THEN create_formula_mass_models(db, row, columns, i + 1, objs)
                    ELSE Then(FormulaMass_get_or_create(db, formula_value,
                                                        mz_value), LAMBDA g :
                           IF g.err # NoErr
                           THEN [db |-> db, objs |-> objs, err |-> g.err]
                           ELSE Then(Append(objs, g.obj), LAMBDA objs1 :
                                  create_formula_mass_models(
                                    g.db, row, columns, i + 1, objs1)))

\* Resolved with the row's own names forgotten: every entity of the map
Resolved_whole_map(names, map) ==
  {map[n] : n \in {k \in DOMAIN map : map[k] # NoId}}

\* the ids a name list resolves to in a lookup map, None entries left out
\* (lines 205-210 and 249-254)
Resolved(names, map) ==
  {map[names[i]] : i \in {j \in 1..Len(names) :
                            names[j] \in DOMAIN map /\ map[names[j]] # NoId}}

\* the body shared by the loops of lines 192-232 and 235-274: get-or-create
\* the Compound of row r, link it, render it, count it
MaterializeCompound(st, r, columns, origin, type, positive, name, skip_images, renderer) ==
  LET c == field(r, columns.clas)
      s == field(r, columns.subclass)
  IN
  IF c \notin DOMAIN st.classes \/ s \notin DOMAIN st.subclasses
  THEN [st |-> Raise(st, "KeyError"), obj |-> NoId]
  ELSE
  Then([origin |-> origin,
        clas |-> st.classes[c],
        subclass |-> st.subclasses[s],
        type |-> type,
        mode |-> (field(r, columns.mode) = positive),
        name |-> name,
        neutral_formula |-> or_empty(r[columns.neutral]),
        mz_ion |-> IF truthy(r[columns.mz]) THEN str(r[columns.mz]) ELSE <<>>,
        smile |-> or_empty(r[columns.smile]),
        notes |-> field(r, columns.notes)], LAMBDA kw :
  Then(Compound_get_or_create(st.db, kw), LAMBDA g :
    IF g.err # NoErr THEN [st |-> Raise(st, g.err), obj |-> NoId] ELSE
  Then([CompoundById(g.db, g.obj) EXCEPT
          !.treatment = @ \cup
             Resolved(split_list(field(r, columns.treatment)), st.treatments),
          !.references = @ \cup
             Resolved(split_list(field(r, columns.reference)), st.references)],
       LAMBDA linked :
  Then(create_formula_mass_models(PutCompound(g.db, g.obj, linked), r,
                                  columns, 1, <<>>), LAMBDA fm :
    IF fm.err # NoErr
    THEN [st |-> [st EXCEPT !.db = fm.db, !.err = fm.err], obj |-> NoId] ELSE
  Then([linked EXCEPT
          !.formulas = @ \cup {fm.objs[i] : i \in 1..Len(fm.objs)}],
       LAMBDA withf :
  Then(IF withf.smile # <<>> /\ ~skip_images
       THEN generate_and_save_molecule_image(withf, renderer, FALSE)
       ELSE [ok |-> FALSE, image |-> withf.molecule_image, err |-> NoErr,
             called |-> FALSE],
       LAMBDA img :
    IF img.err # NoErr
    THEN [st |-> [st EXCEPT !.db = fm.db, !.err = img.err], obj |-> NoId] ELSE
    [st |-> [st EXCEPT
               !.db = PutCompound(
                        fm.db, g.obj,
                        IF img.ok THEN [withf EXCEPT !.molecule_image = img.image]
                        ELSE withf),
               !.rendered = IF img.called THEN @ \cup {g.obj} ELSE @,
               !.total_count = @ + Len(fm.objs) + (IF g.created THEN 1 ELSE 0)],
     obj |-> g.obj]))))))

RECURSIVE Pass2a(_, _, _, _, _)

\* the loop of lines 192-232 with the literal "positivo" of the loop of
\* lines 235-274
Pass2a_positivo(st, columns, i, skip_images, renderer) ==
  IF i > Len(st.originals) \/ st.err # NoErr THEN st
  ELSE LET r == st.originals[i].val.r
       IN  Then(MaterializeCompound(st, r, columns, NoId, "original",
                                    T_positivo, field(r, columns.name),
                                    skip_images, renderer), LAMBDA m :
             IF m.st.err # NoErr THEN m.st
             ELSE Then([m.st EXCEPT !.originals[i].val.obj = m.obj],
                       LAMBDA s1 : Pass2a(s1, columns, i + 1, skip_images,
                                          renderer)))

\* the loop of lines 192-232 from entry i of originals on
Pass2a(st, columns, i, skip_images, renderer) ==
  IF i > Len(st.originals) \/ st.err # NoErr THEN st
  ELSE LET r == st.originals[i].val.r
       IN  Then(MaterializeCompound(st, r, columns, NoId, "original",
                                    T_positive, field(r, columns.name),
                                    skip_images, renderer), LAMBDA m :
             IF m.st.err # NoErr THEN m.st
             ELSE Then([m.st EXCEPT !.originals[i].val.obj = m.obj],
                       LAMBDA s1 : Pass2a(s1, columns, i + 1, skip_images,
                                          renderer)))

RECURSIVE Pass2b(_, _, _, _, _)

\* the loop of lines 235-274 with the type="original" of the loop it was
\* copied from
Pass2b_as_original(st, columns, i, skip_images, renderer) ==
  IF i > Len(st.tps) \/ st.err # NoErr THEN st
  ELSE LET r == st.tps[i].val.r
           origin_compound ==
             dict_get(st.originals, field(r, columns.origin),
                      [r |-> r, obj |-> NoId]).obj
       IN  Then(MaterializeCompound(st, r, columns, origin_compound,
                                    "original", T_positivo, st.tps[i].key,
                                    skip_images, renderer), LAMBDA m :
             IF m.st.err # NoErr THEN m.st
             ELSE Then([m.st EXCEPT !.tps[i].val.obj = m.obj],
                       LAMBDA s1 : Pass2b(s1, columns, i + 1, skip_images,
                                          renderer)))

\* the loop of lines 235-274 from entry i of tps on
Pass2b(st, columns, i, skip_images, renderer) ==
  IF i > Len(st.tps) \/ st.err # NoErr THEN st
  ELSE LET r == st.tps[i].val.r
           origin_compound ==
             dict_get(st.originals, field(r, columns.origin),
                      [r |-> r, obj |-> NoId]).obj
       IN  Then(MaterializeCompound(st, r, columns, origin_compound, "TP",
                                    T_positivo, st.tps[i].key,
                                    skip_images, renderer), LAMBDA m :
             IF m.st.err # NoErr THEN m.st
             ELSE Then([m.st EXCEPT !.tps[i].val.obj = m.obj],
                       LAMBDA s1 : Pass2b(s1, columns, i + 1, skip_images,
                                          renderer)))

\* import_excel_data(ws, skip_images) on store db: the store it leaves, the
\* count it returns, the exception it raises (err), and its final locals
import_excel_data(db, ws, skip_images, renderer) ==
  Then(get_columns(ws), LAMBDA gc :
    IF gc.err # NoErr THEN Raise(ImportStart(db), gc.err) ELSE
  Then(Pass1(ImportStart(db), ws, gc.columns, 1), LAMBDA p1 :
  Then(Pass2a(p1, gc.columns, 1, skip_images, renderer), LAMBDA p2a :
    Pass2b(p2a, gc.columns, 1, skip_images, renderer))))

\* import_excel without transaction.atomic(): a failure keeps the writes
import_excel_not_atomic(db, ws, clear, skip_images, renderer) ==
  IF ~ws.readable
  THEN [db |-> db, count |-> 0, err |-> "LoadError",
        locals |-> ImportStart(db)]
  ELSE
  Then(IF clear THEN clear_data(db) ELSE db, LAMBDA cleared :
  Then(import_excel_data(cleared, ws, skip_images, renderer), LAMBDA res :
    [db |-> res.db, count |-> res.total_count, err |-> res.err,
     locals |-> res]))

\* import_excel(path, clear, skip_images): the whole body runs inside
\* transaction.atomic(), every exception leaves the block and rolls it back
import_excel(db, ws, clear, skip_images, renderer) ==
  IF ~ws.readable
  THEN [db |-> db, count |-> 0, err |-> "LoadError",
        locals |-> ImportStart(db)]
  ELSE
  Then(IF clear THEN clear_data(db) ELSE db, LAMBDA cleared :
  Then(import_excel_data(cleared, ws, skip_images, renderer), LAMBDA res :
    IF res.err # NoErr
    THEN [db |-> db, count |-> 0, err |-> res.err, locals |-> res]
    ELSE [db |-> res.db, count |-> res.total_count, err |-> NoErr,
          locals |-> res]))

\* Command.handle of commands/import_excel.py: load_workbook, then
\* clear_data and import_excel_data outside any transaction
import_command(db, ws, clear, skip_images, renderer) ==
  IF ~ws.readable
  THEN [db |-> db, count |-> 0, err |-> "LoadError",
        locals |-> ImportStart(db)]
  ELSE
  Then(IF clear THEN clear_data(db) ELSE db, LAMBDA cleared :
  Then(import_excel_data(cleared, ws, skip_images, renderer), LAMBDA res :
    [db |-> res.db, count |-> res.total_count, err |-> res.err,
     locals |-> res]))

(***************************************************************************)
(* Inputs: worksheets                                                      *)
(***************************************************************************)
MaxRows ==
  2

MaxOps ==
  2

RequiredHeader ==
  {"compound", "compound class", "subclass", "type", "ionization mode",
   "molecular formula [m]", "m/z ion", "smile neutral formula", "references",
   "notes"}

FullHeader ==
  RequiredHeader \cup {"treatment", "parent compound", "fragment 1",
                       "m/z fragment 1", "fragment 2", "m/z fragment 2"}

\* an 'original' row: name "c", class "F", subclass "Q", mode "positive",
\* every optional cell empty
BaseRow ==
  [h \in FullHeader |->
     CASE h = "compound" -> Str(<<"c">>)
       [] h = "compound class" -> Str(<<"F">>)
       [] h = "subclass" -> Str(<<"Q">>)
       [] h = "type" -> Str(T_original)
       [] h = "ionization mode" -> Str(T_positive)
       [] h = "molecular formula [m]" -> Str(<<"M">>)
       [] h = "m/z ion" -> Str(<<"9">>)
       [] OTHER -> None]

\* row with the cells of over replacing its own
With(row, over) ==
  [h \in DOMAIN row |-> IF h \in DOMAIN over THEN over[h] ELSE row[h]]

\* original "c" with no parent cell, treatment "H; L ;H", one fragment pair
RowCipro ==
  With(BaseRow,
       [treatment |-> Str(<<"H", ";", " ", "L", " ", ";", "H">>),
        references |-> Str(<<" ", "r">>)]
       @@ ("fragment 1" :> Str(<<"X">>))
       @@ ("m/z fragment 1" :> Str(<<"1">>))
       @@ ("smile neutral formula" :> Str(<<"C">>)))

\* the same original with its own name in the parent cell, treatment "-"
RowCiproKeyed ==
  With(BaseRow,
       [treatment |-> Str(<<"-">>)]
       @@ ("parent compound" :> Str(<<"c">>))
       @@ ("smile neutral formula" :> Str(<<"C">>)))

\* transformation product "t" of "c": a fragment formula without a mass
RowTP ==
  With(BaseRow,
       [compound |-> Str(<<"t">>), type |-> Str(<<"T", "P">>),
        treatment |-> Str(<<" ", "L">>)]
       @@ ("parent compound" :> Str(<<"c">>))
       @@ ("ionization mode" :> Str(T_positivo))
       @@ ("fragment 1" :> Str(<<"X">>))
       @@ ("fragment 2" :> Str(<<"X">>))
       @@ ("m/z fragment 2" :> Str(<<"1">>)))

\* transformation product "u" with an empty class cell
RowNoClass ==
  With(BaseRow,
       [compound |-> Str(<<"u">>), type |-> Str(<<"T", "P">>)]
       @@ ("parent compound" :> Str(<<"c">>))
       @@ ("compound class" :> None))

\* transformation product "u" of class "G" with the subclass "Q"
RowOtherClass ==
  With(BaseRow,
       [compound |-> Str(<<"u">>), type |-> Str(<<"T", "P">>)]
       @@ ("compound class" :> Str(<<"G">>)))

\* a separator row: first cell empty
RowBlank ==
  With(BaseRow, [compound |-> None, treatment |-> Str(<<"Z">>)])

\* the rows of the master sheet, top to bottom
Rows ==
  <<RowOtherClass, RowCipro, RowCiproKeyed, RowBlank, RowTP, RowNoClass>>

\* the sheets made of at most n rows of rows, in their order
RECURSIVE RowSeqs(_, _)
RowSeqs(rows, n) ==
  IF rows = <<>> \/ n = 0 THEN {<<>>}
  ELSE RowSeqs(Tail(rows), n)
       \cup {<<Head(rows)>> \o q : q \in RowSeqs(Tail(rows), n - 1)}

\* the cells of a row under the columns of header
Cut(row, header) ==
  [h \in header |-> row[h]]

Sheet(header, rows) ==
  [readable |-> TRUE, header |-> header, col0 |-> "compound",
   rows |-> [i \in 1..Len(rows) |-> Cut(rows[i], header)]]

\* a file load_workbook cannot open
Unreadable ==
  [readable |-> FALSE, header |-> {}, col0 |-> "compound", rows |-> <<>>]

\* header rows lacking one required column
BrokenHeaders ==
  {FullHeader \ {"compound class"}, FullHeader \ {"notes"}}

Worksheets ==
  {Sheet(FullHeader, q) : q \in RowSeqs(Rows, MaxRows)}
  \cup {Sheet(h, <<RowCipro>>) : h \in BrokenHeaders}
  \cup {Unreadable}

\* the worksheets given to the import_excel command
CommandWorksheets ==
  {Sheet(FullHeader, q) : q \in RowSeqs(Rows, MaxRows - 1)}
  \cup {Sheet(h, <<RowCipro>>) : h \in BrokenHeaders}
  \cup {Unreadable}

\* the renderer of the process: rdkit present and parsing "C"
Renderers ==
  {[available |-> TRUE, parses |-> {<<"C">>}]}

(***************************************************************************)
(* State                                                                   *)
(***************************************************************************)
VARIABLES
  store,     \* the committed Normalized Store
  renderer,  \* the Structure Renderer of this deployment
  call,      \* the last direct run of the import: arguments and outcome
  nops,      \* number of direct import runs so far
  uploads,   \* the ExcelUpload rows, by id
  clock,     \* the last uploaded_at handed out
  events,    \* the audit events appended so far
  run,       \* the process_pending worker that runs: position and locals
  peer,      \* a second process_pending worker, while it does not run
  web,       \* the CustomUser rows and the last request a view answered
  txn        \* the database transactions of two concurrent imports

vars ==
  <<store, renderer, call, nops, uploads, clock, events, run, peer, web, txn>>

NoCall ==
  [entry |-> "none", ws |-> Unreadable, clear |-> FALSE, skip_images |-> FALSE,
   pre |-> EmptyStore, count |-> 0, err |-> NoErr, originals |-> <<>>,
   tps |-> <<>>, rerun |-> FALSE, rendered |-> {}, force |-> FALSE]

\* the record of one run of the import
\* (rerun: the run before it imported the same worksheet without error and
\*  this one does not clear)
Call(entry, ws, clear, skip_images, res) ==
  [entry |-> entry, ws |-> ws, clear |-> clear, skip_images |-> skip_images,
   pre |-> store, count |-> res.count, err |-> res.err,
   originals |-> res.locals.originals, tps |-> res.locals.tps,
   rerun |-> (call.entry # "none" /\ call.err = NoErr /\ call.ws = ws
              /\ ~clear),
   rendered |-> res.locals.rendered, force |-> FALSE]

\* no CustomUser row, no request answered yet
NoWeb ==
  [users |-> {}, view |-> "none", request |-> <<>>, response |-> <<>>]

\* no import has a transaction open
\* (base: the committed store the transaction started on; db: the store as
\*  the transaction sees it after its statements; touched: the Compounds it
\*  got or created; err: the exception import_excel raised)
NoTxn ==
  [w \in 1..2 |-> [open |-> FALSE, base |-> EmptyStore, db |-> EmptyStore,
                   touched |-> {}, err |-> NoErr]]

\* an ExcelUpload object not yet loaded
NoUpload ==
  [id |-> 0, uploaded_by |-> "admin", uploaded_at |-> 0, status |-> "pending",
   records_imported |-> 0, error_message |-> <<>>,
   clear_existing_data |-> FALSE]

\* the worker before process_pending is called
\* (queue: the uploads of the evaluated queryset still to handle; upload: the
\*  in-memory object process_upload works on; selected, pending, max_files,
\*  processed, obj, pre, before, exc: what the last call selected and did,
\*  the store and the ExcelUpload row as they were when the job was taken)
Idle ==
  [pc |-> "idle", queue |-> <<>>, selected |-> <<>>, pending |-> {},
   max_files |-> 0, processed |-> <<>>, upload |-> NoUpload, obj |-> 0,
   count |-> 0, exc |-> <<>>, pre |-> EmptyStore, before |-> NoUpload]

Init ==
  /\ store = EmptyStore
  /\ renderer \in Renderers
  /\ call = NoCall
  /\ nops = 0
  /\ uploads = <<>>
  /\ clock = 0
  /\ events = <<>>
  /\ run = Idle
  /\ peer = Idle
  /\ web = NoWeb
  /\ txn = NoTxn

(***************************************************************************)
(* The import, called directly and from the import_excel command           *)
(***************************************************************************)
\* import_excel(path, clear, skip_images) on the worksheet ws of path
ImportExcel(ws, clear, skip_images) ==
  /\ nops < MaxOps
  /\ \E res \in {import_excel(store, ws, clear, skip_images, renderer)} :
       /\ store' = res.db
       /\ call' = Call("import_excel", ws, clear, skip_images, res)
  /\ nops' = nops + 1
  /\ UNCHANGED <<renderer, uploads, clock, events, run, peer, web, txn>>

\* manage.py import_excel <path> [--clear] [--skip-images]
ImportCommand(ws, clear, skip_images) ==
  /\ nops < MaxOps
  /\ \E res \in {import_command(store, ws, clear, skip_images, renderer)} :
       /\ store' = res.db
       /\ call' = Call("command", ws, clear, skip_images, res)
  /\ nops' = nops + 1
  /\ UNCHANGED <<renderer, uploads, clock, events, run, peer, web, txn>>

\* process_upload is the only caller of import_excel: skip_images is False
NextImport ==
  \E ws \in Worksheets, clear \in BOOLEAN :
    ImportExcel(ws, clear, FALSE)

SpecImport ==
  Init /\ [][NextImport]_vars

\* optional columns a worksheet may come without: the treatment column, the
\* parent-compound column, the first fragment pair or one half of it (the
\* pairs 3 to 10 are in no worksheet)
OptionalDrops ==
  SUBSET {"treatment", "parent compound", "fragment 1", "m/z fragment 1"}

\* worksheets with every required column and some optional columns
OptionalWorksheets ==
  {Sheet(FullHeader \ drop, q) :
     drop \in OptionalDrops, q \in {<<>>, <<RowCipro>>, <<RowCipro, RowTP>>}}

NextOptional ==
  \E ws \in OptionalWorksheets, clear \in BOOLEAN :
    ImportExcel(ws, clear, FALSE)

SpecOptional ==
  Init /\ [][NextOptional]_vars

\* transformation product "t" with a structure string that is no SMILES
RowTPx ==
  With(RowTP, ("smile neutral formula" :> Str(<<"x">>)))

\* the deployments: rdkit present or not, accepting any of the structure
\* strings "C" and "x"
AllRenderers ==
  {[available |-> a, parses |-> p] :
     a \in BOOLEAN, p \in SUBSET {<<"C">>, <<"x">>}}

RenderWorksheets ==
  {Sheet(FullHeader, q) :
     q \in RowSeqs(<<RowCipro, RowTPx, RowNoClass>>, MaxRows)}

InitRender ==
  /\ store = EmptyStore
  /\ renderer \in AllRenderers
  /\ call = NoCall
  /\ nops = 0
  /\ uploads = <<>>
  /\ clock = 0
  /\ events = <<>>
  /\ run = Idle
  /\ peer = Idle
  /\ web = NoWeb
  /\ txn = NoTxn

NextRender ==
  \E ws \in RenderWorksheets, clear \in BOOLEAN :
    ImportExcel(ws, clear, FALSE)

SpecRender ==
  InitRender /\ [][NextRender]_vars

\* the admin deletes the Class row named name
DeleteClass(name) ==
  /\ \E k \in store.Class :
       /\ k.name = name
       /\ store' = delete_class(store, k.id)
  /\ UNCHANGED <<renderer, call, nops, uploads, clock, events, run, peer, web, txn>>

\* transformation product "v" of "c", in class "G" and subclass "R"
RowTPForeign ==
  With(BaseRow,
       [compound |-> Str(<<"v">>), type |-> Str(<<"T", "P">>),
        subclass |-> Str(<<"R">>)]
       @@ ("compound class" :> Str(<<"G">>))
       @@ ("parent compound" :> Str(<<"c">>)))

DeleteWorksheets ==
  {Sheet(FullHeader, q) :
     q \in RowSeqs(<<RowCiproKeyed, RowTPForeign, RowTP>>, MaxRows)}

NextDelete ==
  \/ \E ws \in DeleteWorksheets, clear \in BOOLEAN :
       ImportExcel(ws, clear, FALSE)
  \/ \E name \in {<<"F">>, <<"G">>} : DeleteClass(name)

SpecDelete ==
  Init /\ [][NextDelete]_vars

\* manage.py regenerate_molecules [--force] [--missing-only]
\* [--compound-id <id>] (one: the option --compound-id is given, with the id
\* of a stored Compound or with an id no Compound has)
RegenerateMolecules(force, missing_only, one) ==
  /\ nops < MaxOps
  /\ \E compound_id \in IF one THEN Ids(store.Compound) \cup {store.seq + 1}
                         ELSE {NoId} :
       \E res \in {regenerate_molecules(store, force, compound_id,
                                        missing_only, renderer)} :
         /\ store' = res.db
         /\ call' = [NoCall EXCEPT !.entry = "regenerate", !.pre = store,
                                   !.rendered = res.rendered,
                                   !.force = force]
  /\ nops' = nops + 1
  /\ UNCHANGED <<renderer, uploads, clock, events, run, peer, web, txn>>

ImageWorksheets ==
  {Sheet(FullHeader, q) :
     q \in RowSeqs(<<RowCipro, RowTPx, RowNoClass>>, MaxRows - 1)}

NextImages ==
  \/ \E ws \in ImageWorksheets, clear \in BOOLEAN, skip_images \in BOOLEAN :
       ImportExcel(ws, clear, skip_images)
  \/ \E force \in BOOLEAN, missing_only \in BOOLEAN, one \in BOOLEAN :
       RegenerateMolecules(force, missing_only, one)

SpecImages ==
  InitRender /\ [][NextImages]_vars

\* original "d" with no parent cell, as RowCipro
RowDelta ==
  With(BaseRow, [compound |-> Str(<<"d">>)])

\* transformation product "t" of "d": the name of RowTP under another parent
RowTPTwin ==
  With(BaseRow,
       [compound |-> Str(<<"t">>), type |-> Str(<<"T", "P">>)]
       @@ ("parent compound" :> Str(<<"d">>))
       @@ ("ionization mode" :> Str(T_positivo)))

\* worksheets whose rows share a parent-compound cell or a compound name
SharedWorksheets ==
  {Sheet(FullHeader, q) :
     q \in RowSeqs(<<RowCipro, RowDelta, RowCiproKeyed, RowTP, RowTPTwin>>,
                   MaxRows)}

NextShared ==
  \E ws \in SharedWorksheets, clear \in BOOLEAN, skip_images \in BOOLEAN :
    ImportExcel(ws, clear, skip_images)

SpecShared ==
  Init /\ [][NextShared]_vars

NextCommand ==
  \E ws \in CommandWorksheets, clear \in BOOLEAN, skip_images \in BOOLEAN :
    ImportCommand(ws, clear, skip_images)

SpecCommand ==
  Init /\ [][NextCommand]_vars

(***************************************************************************)
(* The Upload Job Runner (core/excel.py, core/admin.py)                    *)
(***************************************************************************)
MaxJobs ==
  2

MaxFiles ==
  2

\* error_message = None
Null ==
  <<>>

Min(a, b) ==
  IF a < b THEN a ELSE b

\* ExcelUploadAdmin.save_model for a new upload: the model's defaults,
\* uploaded_at = now (two uploads may get the same timestamp)
Upload(clear, t) ==
  /\ Len(uploads) < MaxJobs
  /\ t \in {clock, clock + 1}
  /\ t >= 1
  /\ uploads' = Append(uploads,
                       [id |-> Len(uploads) + 1,
                        uploaded_by |-> "admin",
                        uploaded_at |-> t,
                        status |-> "pending",
                        records_imported |-> 0,
                        error_message |-> Null,
                        clear_existing_data |-> clear])
  /\ clock' = t
  /\ UNCHANGED <<store, renderer, call, nops, events, run, peer, web, txn>>

\* the queryset left in the model's default ordering, -uploaded_at
OrderByUploadedAtDesc(rows) ==
  LET ids == {i \in DOMAIN rows : rows[i].status = "pending"}
      n == Cardinality(ids)
  IN  {q \in [1..n -> ids] :
         /\ \A i, j \in 1..n : i # j => q[i] # q[j]
         /\ \A i, j \in 1..n :
              i < j => rows[q[i]].uploaded_at >= rows[q[j]].uploaded_at}

\* the orders filter(status="pending").order_by("uploaded_at") may return:
\* every pending upload once, uploaded_at ascending, ties in any order
OrderByUploadedAt(rows) ==
  LET ids == {i \in DOMAIN rows : rows[i].status = "pending"}
      n == Cardinality(ids)
  IN  {q \in [1..n -> ids] :
         /\ \A i, j \in 1..n : i # j => q[i] # q[j]
         /\ \A i, j \in 1..n :
              i < j => rows[q[i]].uploaded_at <= rows[q[j]].uploaded_at}

\* process_pending(max_files), lines 280-288: evaluate the sliced queryset
ProcessPending(max_files) ==
  /\ run.pc = "idle"
  /\ \E q \in OrderByUploadedAt(uploads) :
       LET pending_uploads == SubSeq(q, 1, Min(max_files, Len(q)))
       IN  /\ pending_uploads # <<>>
           /\ run' = [Idle EXCEPT
                        !.pc = "loop",
                        !.queue = [i \in 1..Len(pending_uploads) |->
                                     uploads[pending_uploads[i]]],
                        !.selected = pending_uploads,
                        !.pending = {q[i] : i \in 1..Len(q)},
                        !.max_files = max_files]
  /\ UNCHANGED <<store, renderer, call, nops, uploads, clock, events, peer, web, txn>>

\* upload.save(): write the fields of the in-memory object
save(obj) ==
  [uploads EXCEPT ![obj.id] = obj]

\* lines 290-293: the next upload of the batch, or return
NextUpload ==
  /\ run.pc = "loop"
  /\ IF run.queue = <<>>
     THEN run' = [run EXCEPT !.pc = "idle"]
     ELSE run' = [run EXCEPT !.pc = "process_upload",
                             !.upload = Head(run.queue),
                             !.obj = Head(run.queue).id,
                             !.queue = Tail(run.queue),
                             !.processed = Append(@, Head(run.queue).id),
                             !.pre = store,
                             !.before = uploads[Head(run.queue).id],
                             !.exc = Null,
                             !.count = 0]
  /\ UNCHANGED <<store, renderer, call, nops, uploads, clock, events, peer, web, txn>>

\* process_upload lines 304-316: the file check, then status "processing"
\* (exists: upload.file and os.path.exists(upload.file.path))
CheckFile(exists) ==
  /\ run.pc = "process_upload"
  /\ IF ~exists
     THEN LET obj == [run.upload EXCEPT !.status = "error",
                                        !.error_message = <<"File not found">>]
          IN  /\ uploads' = save(obj)
              /\ run' = [run EXCEPT !.pc = "loop", !.upload = obj,
                                    !.exc = <<"File not found">>]
     ELSE LET obj == [run.upload EXCEPT !.status = "processing"]
          IN  /\ uploads' = save(obj)
              /\ run' = [run EXCEPT !.pc = "import", !.upload = obj]
  /\ UNCHANGED <<store, renderer, call, nops, clock, events, peer, web, txn>>

\* line 320: import_excel(upload.file.path, upload.clear_existing_data, False)
\* on the worksheet ws of the file
RunImport(ws) ==
  /\ run.pc = "import"
  /\ \E res \in {import_excel(store, ws, run.upload.clear_existing_data,
                                FALSE, renderer)} :
         /\ store' = res.db
         /\ IF res.err # NoErr
            THEN run' = [run EXCEPT
                           !.pc = "except",
                           !.exc = <<"Error reading Excel file: ", res.err>>]
            ELSE run' = [run EXCEPT !.pc = "completed", !.count = res.count]
  /\ UNCHANGED <<renderer, call, nops, uploads, clock, events, peer, web, txn>>

\* lines 321-324; the save raises when the database rejects the write
\* (ok = FALSE), after the transaction of import_excel has committed
SaveCompleted(ok) ==
  /\ run.pc = "completed"
  /\ LET obj == [run.upload EXCEPT !.records_imported = run.count,
                                   !.status = "completed",
                                   !.error_message = Null]
     IN  IF ok
         THEN /\ uploads' = save(obj)
              /\ run' = [run EXCEPT !.pc = "event", !.upload = obj]
         ELSE /\ uploads' = uploads
              /\ run' = [run EXCEPT !.pc = "except", !.upload = obj,
                                    !.exc = <<"SaveError">>]
  /\ UNCHANGED <<store, renderer, call, nops, clock, events, peer, web, txn>>

\* add_user_event(user, event_type, extra_data): one synchronous append to
\* the audit log, which raises when the append fails (ok = FALSE)
add_user_event(log, user, event_type, extra_data, ok) ==
  IF ok
  THEN [events |-> Append(log, [user |-> user, event_type |-> event_type,
                                extra_data |-> extra_data]),
        err |-> NoErr]
  ELSE [events |-> log, err |-> "EventError"]

\* process_upload without the add_user_event call of lines 326-335
LogImportEvent_skipped(ok) ==
  /\ run.pc = "event"
  /\ run' = [run EXCEPT !.pc = "loop"]
  /\ UNCHANGED <<store, renderer, call, nops, uploads, clock, events, peer, web, txn>>

\* lines 326-335
LogImportEvent(ok) ==
  /\ run.pc = "event"
  /\ LET res == add_user_event(
                  events, run.upload.uploaded_by, "import",
                  [filename |-> run.upload.id,
                   records_imported |-> run.count,
                   clear_existing_data |-> run.upload.clear_existing_data],
                  ok)
     IN  /\ events' = res.events
         /\ IF res.err # NoErr
            THEN run' = [run EXCEPT !.pc = "except", !.exc = <<res.err>>]
            ELSE run' = [run EXCEPT !.pc = "loop"]
  /\ UNCHANGED <<store, renderer, call, nops, uploads, clock, peer, web, txn>>

\* lines 337-341 under a process_pending without the try/except of lines
\* 292-298: the re-raised exception ends the loop
HandleException_propagates ==
  /\ run.pc = "except"
  /\ LET obj == [run.upload EXCEPT !.status = "error",
                                   !.error_message = run.exc]
     IN  /\ uploads' = save(obj)
         /\ run' = [run EXCEPT !.pc = "idle", !.upload = obj]
  /\ UNCHANGED <<store, renderer, call, nops, clock, events, peer, web, txn>>

\* lines 337-341, and the except of process_pending that logs the re-raise
HandleException ==
  /\ run.pc = "except"
  /\ LET obj == [run.upload EXCEPT !.status = "error",
                                   !.error_message = run.exc]
     IN  /\ uploads' = save(obj)
         /\ run' = [run EXCEPT !.pc = "loop", !.upload = obj]
  /\ UNCHANGED <<store, renderer, call, nops, clock, events, peer, web, txn>>

\* the files uploaded: spreadsheets that import, spreadsheets that fail in
\* pass 1, in pass 2 and in the header check, and a file that is no workbook
JobWorksheets ==
  {Sheet(FullHeader, <<RowCipro>>),
   Sheet(FullHeader, <<RowCiproKeyed, RowTP>>),
   Sheet(FullHeader, <<RowNoClass>>),
   Sheet(FullHeader, <<RowCipro, RowNoClass>>),
   Sheet(FullHeader \ {"compound class"}, <<RowCipro>>),
   Unreadable}

Next ==
  \/ \E clear \in BOOLEAN, t \in 1..MaxJobs : Upload(clear, t)
  \/ \E max_files \in 0..MaxFiles : ProcessPending(max_files)
  \/ NextUpload
  \/ \E exists \in BOOLEAN : CheckFile(exists)
  \/ \E ws \in JobWorksheets : RunImport(ws)
  \/ \E ok \in BOOLEAN : SaveCompleted(ok)
  \/ \E ok \in BOOLEAN : LogImportEvent(ok)
  \/ HandleException

Spec ==
  Init /\ [][Next]_vars

(***************************************************************************)
(* Two process_pending_imports processes at once                           *)
(***************************************************************************)
\* the scheduler takes the processor from one process_pending_imports
\* process and gives it to the other: run is the one that executes
Yield ==
  /\ run' = peer
  /\ peer' = run
  /\ UNCHANGED <<store, renderer, call, nops, uploads, clock, events, web, txn>>

\* the files uploaded while two workers run: one that imports, one that
\* fails in pass 2
RaceWorksheets ==
  {Sheet(FullHeader, <<RowCipro>>), Sheet(FullHeader, <<RowNoClass>>)}

NextRunners ==
  \/ \E t \in 1..MaxJobs : Upload(FALSE, t)
  \/ \E max_files \in 1..MaxFiles : ProcessPending(max_files)
  \/ NextUpload
  \/ \E exists \in BOOLEAN : CheckFile(exists)
  \/ \E ws \in RaceWorksheets : RunImport(ws)
  \/ SaveCompleted(TRUE)
  \/ LogImportEvent(TRUE)
  \/ HandleException
  \/ Yield

SpecRunners ==
  Init /\ [][NextRunners]_vars

(***************************************************************************)
(* Two imports at once: transaction.atomic() on PostgreSQL, READ COMMITTED *)
(***************************************************************************)
\* the rows a transaction inserted into table, by the ids of its own view
Inserted(t, table) ==
  {o \in t.db[table] : o.id > t.base.seq}

\* the values a transaction inserted under a unique constraint
UniqueKeys(t) ==
  {<<"Class", o.name>> : o \in Inserted(t, "Class")}
  \cup {<<"Subclass", o.name>> : o \in Inserted(t, "Subclass")}
  \cup {<<"Treatment", o.name>> : o \in Inserted(t, "Treatment")}

\* the committed Compounds a transaction wrote to (links added, save())
Written(t) ==
  {c \in t.touched : c <= t.base.seq}

\* one of two open transactions has to wait for the other: both insert the
\* same unique value, or both write to the same committed Compound
Blocks(t, u) ==
  \/ UniqueKeys(t) \cap UniqueKeys(u) # {}
  \/ Written(t) \cap Written(u) # {}

\* COMMIT of transaction t on the committed store db: the rows t inserted
\* join the rows committed meanwhile (the model numbers them anew, after the
\* ids in use), the Compounds t wrote to take the values t gave them
commit(db, t) ==
  LET sh(id) == IF id > t.base.seq THEN id + (db.seq - t.base.seq) ELSE id
      lookup(table) ==
        db[table] \cup {[o EXCEPT !.id = sh(@)] : o \in Inserted(t, table)}
      compound(o) ==
        [o EXCEPT !.id = sh(@), !.origin = sh(@), !.clas = sh(@),
                  !.subclass = sh(@),
                  !.treatment = {sh(x) : x \in @},
                  !.references = {sh(x) : x \in @},
                  !.formulas = {sh(x) : x \in @}]
  IN  [Class |-> lookup("Class"),
       Subclass |-> db.Subclass
                    \cup {[o EXCEPT !.id = sh(@), !.clas = sh(@)] :
                            o \in Inserted(t, "Subclass")},
       Treatment |-> lookup("Treatment"),
       Reference |-> lookup("Reference"),
       FormulaMass |-> lookup("FormulaMass"),
       Compound |-> {o \in db.Compound : o.id \notin Written(t)}
                    \cup {compound(o) :
                            o \in {x \in t.db.Compound :
                                     x.id > t.base.seq
                                     \/ x.id \in Written(t)}},
       seq |-> db.seq + (t.db.seq - t.base.seq)]

\* import_excel(path) in process w, up to the end of the atomic block: its
\* statements see the committed store only, and run now unless they have to
\* wait for the open transaction of the other process
Begin(w, ws) ==
  /\ nops < MaxOps
  /\ ~txn[w].open
  /\ \E res \in {import_excel(store, ws, FALSE, FALSE, renderer)} :
       \E t \in {[open |-> TRUE, base |-> store, db |-> res.db,
                  touched |-> {res.locals.originals[i].val.obj :
                                 i \in 1..Len(res.locals.originals)}
                              \cup {res.locals.tps[i].val.obj :
                                      i \in 1..Len(res.locals.tps)},
                  err |-> res.err]} :
         /\ \A v \in DOMAIN txn \ {w} : txn[v].open => ~Blocks(t, txn[v])
         /\ txn' = [txn EXCEPT ![w] = t]
  /\ nops' = nops + 1
  /\ UNCHANGED <<store, renderer, call, uploads, clock, events, run, peer,
                 web>>

\* the atomic block of process w ends: COMMIT, or ROLLBACK after an exception
Commit(w) ==
  /\ txn[w].open
  /\ store' = IF txn[w].err = NoErr THEN commit(store, txn[w]) ELSE store
  /\ txn' = [txn EXCEPT ![w].open = FALSE]
  /\ UNCHANGED <<renderer, call, nops, uploads, clock, events, run, peer,
                 web>>

\* original "c" of class "F": a reference and a fragment pair
RowRefF ==
  With(BaseRow,
       [references |-> Str(<<"r">>)]
       @@ ("fragment 1" :> Str(<<"X">>))
       @@ ("m/z fragment 1" :> Str(<<"1">>)))

\* original "d" of class "G", subclass "R": the reference and the fragment
\* pair of RowRefF
RowRefG ==
  With(RowRefF,
       [compound |-> Str(<<"d">>), subclass |-> Str(<<"R">>)]
       @@ ("compound class" :> Str(<<"G">>)))

ConcurrentWorksheets ==
  {Sheet(FullHeader, q) : q \in RowSeqs(<<RowRefF, RowRefG, RowTP>>, MaxRows)}

NextConcurrent ==
  \/ \E w \in 1..2, ws \in ConcurrentWorksheets : Begin(w, ws)
  \/ \E w \in 1..2 : Commit(w)

SpecConcurrent ==
  Init /\ [][NextConcurrent]_vars

(***************************************************************************)
(* The views (accounts/views.py, core/views.py)                            *)
(***************************************************************************)
MaxLen ==
  3

\* the texts of at most n of the characters of chars
RECURSIVE Texts(_, _)
Texts(chars, n) ==
  IF n = 0 THEN {<<>>}
  ELSE Texts(chars, n - 1)
       \cup {<<c>> \o t : c \in chars, t \in Texts(chars, n - 1)}

DigitValue(c) ==
  CASE c = "0" -> 0 [] c = "1" -> 1 [] c = "9" -> 9 [] OTHER -> -1

\* the value of a text of decimal digits
RECURSIVE Decimal(_)
Decimal(d) ==
  IF d = <<>> THEN 0
  ELSE 10 * Decimal(SubSeq(d, 1, Len(d) - 1)) + DigitValue(d[Len(d)])

\* int(v) of Python for a query-string value or the integer default of
\* request.GET.get: surrounding whitespace, an optional sign, then digits;
\* anything else raises ValueError (ok false)
int(v, default) ==
  IF v.none THEN [ok |-> TRUE, value |-> default]
  ELSE LET t == strip(v.s)
           neg == t # <<>> /\ Head(t) = "-"
           d == IF neg THEN Tail(t) ELSE t
       IN  IF d = <<>> \/ \E i \in 1..Len(d) : DigitValue(d[i]) < 0
           THEN [ok |-> FALSE, value |-> 0]
           ELSE [ok |-> TRUE,
                 value |-> IF neg THEN 0 - Decimal(d) ELSE Decimal(d)]

Max(a, b) ==
  IF a >= b THEN a ELSE b

\* lines 230-235 of compounds_api without the upper limit of the page size
compounds_api_unlimited(page, page_size) ==
  IF int(page, 1).ok /\ int(page_size, 20).ok
  THEN [page |-> Max(int(page, 1).value, 1),
        page_size |-> Max(int(page_size, 20).value, 1)]
  ELSE [page |-> 1, page_size |-> 20]

\* lines 230-235 of compounds_api: the page and the page size handed to the
\* Paginator for the query parameters page and page_size (None: absent)
compounds_api(page, page_size) ==
  IF int(page, 1).ok /\ int(page_size, 20).ok
  THEN [page |-> Max(int(page, 1).value, 1),
        page_size |-> Min(Max(int(page_size, 20).value, 1), 100)]
  ELSE [page |-> 1, page_size |-> 20]

\* magic_link_request(request): the message flashed and the response, for
\* the request method, the posted email, the CustomUser rows (users: the
\* email of each) and whether send_mail succeeds
magic_link_request(method, email, users, mail_ok) ==
  IF method # "POST"
  THEN [message |-> "none", response |-> "render"]
  ELSE
  LET e == strip(email)
      n == Cardinality({u \in users : u.email = e})
  IN  IF e = <<>>
      THEN [message |-> "Please enter your email address.",
            response |-> "render"]
      ELSE IF n = 0
      THEN [message |->
              "If that email is registered, you will receive a login link.",
            response |-> "redirect login"]
      ELSE IF n > 1 \/ ~mail_ok
      THEN [message |->
              "There was an error sending the email. Please try again.",
            response |-> "render"]
      ELSE [message |-> "Check your email for a login link!",
            response |-> "redirect login"]

\* the view answers the request GET /api/compounds/?page=..&page_size=..
CompoundsApi ==
  /\ web.view = "compounds_api"
  /\ web' = [web EXCEPT !.response = compounds_api(web.request.page,
                                                   web.request.page_size)]
  /\ UNCHANGED <<store, renderer, call, nops, uploads, clock, events, run,
                 peer, txn>>

\* GET or POST /accounts/login/
MagicLinkRequest(method, email, mail_ok) ==
  /\ web' = [web EXCEPT !.view = "magic_link_request",
                        !.request = [method |-> method, email |-> email,
                                     mail_ok |-> mail_ok],
                        !.response = magic_link_request(method, email,
                                                        web.users, mail_ok)]
  /\ UNCHANGED <<store, renderer, call, nops, uploads, clock, events, run,
                 peer, txn>>

QueryChars ==
  {"0", "1", "-", " ", "x"}

\* a query parameter: absent, or a text
Params(n) ==
  {None} \cup {Str(t) : t \in Texts(QueryChars, n)}

\* a request for /api/compounds/ has arrived
InitApi ==
  /\ store = EmptyStore
  /\ renderer \in Renderers
  /\ call = NoCall
  /\ nops = 0
  /\ uploads = <<>>
  /\ clock = 0
  /\ events = <<>>
  /\ run = Idle
  /\ peer = Idle
  /\ txn = NoTxn
  /\ \E page \in Params(MaxLen - 1), page_size \in Params(MaxLen) :
       web = [NoWeb EXCEPT !.view = "compounds_api",
                           !.request = [page |-> page,
                                        page_size |-> page_size]]

NextApi ==
  CompoundsApi

SpecApi ==
  InitApi /\ [][NextApi]_vars

Emails ==
  {<<>>, <<" ">>, <<"a">>, <<" ", "a">>, <<"b">>}

\* the CustomUser rows: email is not unique
UserTables ==
  SUBSET {[id |-> i, email |-> e] :
            i \in 1..2, e \in {<<"a">>, <<"b">>}}

InitLogin ==
  /\ store = EmptyStore
  /\ renderer \in Renderers
  /\ call = NoCall
  /\ nops = 0
  /\ uploads = <<>>
  /\ clock = 0
  /\ events = <<>>
  /\ run = Idle
  /\ peer = Idle
  /\ txn = NoTxn
  /\ \E users \in UserTables :
       /\ \A u, v \in users : u.id = v.id => u = v
       /\ web = [NoWeb EXCEPT !.users = users]

NextLogin ==
  \E method \in {"GET", "POST"}, email \in Emails, mail_ok \in BOOLEAN :
    MagicLinkRequest(method, email, mail_ok)

SpecLogin ==
  InitLogin /\ [][NextLogin]_vars

(***************************************************************************)
(* Properties                                                              *)
(***************************************************************************)
\* the entries of the originals and tps maps of the last import that pass 2
\* turned into a Compound
Imported ==
  {call.originals[i].val : i \in 1..Len(call.originals)}
  \cup {call.tps[i].val : i \in 1..Len(call.tps)}

\* the last import ran and returned a count
Returned ==
  call.entry # "none" /\ call.err = NoErr

\* the store the last import started pass 1 on
StartStore ==
  IF call.clear THEN clear_data(call.pre) ELSE call.pre

\* C1: the status of an upload job only ever changes along
\* pending -> processing, processing -> completed or processing -> error
C1_StatusTransitions ==
  [][\A j \in DOMAIN uploads :
       uploads'[j].status # uploads[j].status
         => <<uploads[j].status, uploads'[j].status>> \in
              {<<"pending", "processing">>, <<"processing", "completed">>,
               <<"processing", "error">>}]_vars

\* C2: when import_excel raises, the rows and links of the store are exactly
\* those that existed before the call, also with clear=True
C2_AllOrNothing ==
  (call.entry = "import_excel" /\ call.err # NoErr)
    => Records(store) = Records(call.pre)

\* an import with clear=True on a non-empty store that created the
\* original Compound and then failed in pass 2b
C2_Witness ==
  /\ call.entry = "import_excel"
  /\ call.err = "KeyError"
  /\ call.clear
  /\ call.pre.Compound # {}
  /\ \E i \in 1..Len(call.originals) : call.originals[i].val.obj # NoId

\* C3: a job that process_upload left in status 'error' has made no write to
\* the store, and its error_message is the exception text
C3_ErrorLeavesNoWrites ==
  (run.pc \in {"loop", "idle"} /\ run.obj # 0
     /\ uploads[run.obj].status = "error")
    => /\ Records(store) = Records(run.pre)
       /\ uploads[run.obj].error_message = run.exc

\* C4: an import of a worksheet whose header lacks a required column fails
\* before any data row is processed and leaves the store's records as they
\* were, whatever the clear flag and the entry point
C4_SchemaErrorWritesNothing ==
  (call.entry # "none" /\ call.err = "MissingColumns")
    => /\ Records(store) = Records(call.pre)
       /\ call.originals = <<>> /\ call.tps = <<>>

\* C5: the count the import returns is the number of rows it inserted
C5_CountIsInserted ==
  Returned => call.count = TotalRows(store) - TotalRows(StartStore)

\* C6: importing the same worksheet a second time with clear=False inserts
\* no row: every entity has the same rows, hence the same row count
C6_Idempotent ==
  call.rerun
    => /\ call.err = NoErr
       /\ RowCounts(store) = RowCounts(call.pre)
       /\ Ids(store.Class) = Ids(call.pre.Class)
       /\ Ids(store.Subclass) = Ids(call.pre.Subclass)
       /\ Ids(store.Treatment) = Ids(call.pre.Treatment)
       /\ Ids(store.Reference) = Ids(call.pre.Reference)
       /\ Ids(store.FormulaMass) = Ids(call.pre.FormulaMass)
       /\ Ids(store.Compound) = Ids(call.pre.Compound)

\* a second import of a worksheet with an original, a transformation product
\* and fragment pairs
C6_Witness ==
  /\ call.rerun
  /\ call.originals # <<>> /\ call.tps # <<>>
  /\ store.FormulaMass # {}
  /\ store.Treatment # {}

\* a cell that is non-empty after trimming
NonEmpty(cell) ==
  ~cell.none /\ strip(cell.s) # <<>>

\* the fragment column pairs of row r with both cells non-empty
FullPairs(r) ==
  {i \in FragmentNumbers :
     /\ FragmentHeader[i] \in DOMAIN r /\ MzFragmentHeader[i] \in DOMAIN r
     /\ NonEmpty(r[FragmentHeader[i]]) /\ NonEmpty(r[MzFragmentHeader[i]])}

\* C7: the Compound of every imported row has as many FormulaMass links as
\* the row has fragment pairs with both cells non-empty
C7_FormulaLinks ==
  Returned
    => \A e \in Imported :
         Cardinality(CompoundById(store, e.obj).formulas)
           = Cardinality(FullPairs(e.r))

\* C8: a transformation-product row whose parent cell names an original of
\* the worksheet gets that original's Compound as origin
C8_OriginResolved ==
  Returned
    => \A i \in 1..Len(call.tps), j \in 1..Len(call.originals) :
         LET tp == call.tps[i].val
             orig == call.originals[j].val
         IN  (/\ "parent compound" \in DOMAIN tp.r
              /\ field(tp.r, "parent compound") # <<>>
              /\ field(tp.r, "parent compound") = field(orig.r, "compound"))
               => CompoundById(store, tp.obj).origin = orig.obj

\* the distinct trimmed non-empty names of the treatment cell of row r
TreatmentNames(r) ==
  LET names == split_list(field(r, "treatment"))
  IN  {names[i] : i \in 1..Len(names)}

\* the Treatment rows named by one of names
TreatmentsNamed(names) ==
  {t.id : t \in {x \in store.Treatment : x.name \in names}}

\* C9 as claimed: the Treatment links of the Compound of an imported row are
\* exactly the names of its treatment cell, each one Treatment row
C9_TreatmentLinksExact ==
  Returned
    => \A e \in Imported :
         /\ CompoundById(store, e.obj).treatment
              = TreatmentsNamed(TreatmentNames(e.r))
         /\ \A n \in TreatmentNames(e.r) :
              Cardinality({t \in store.Treatment : t.name = n}) = 1

\* the Treatment links Compound id had when pass 1 started
LinksBefore(id) ==
  UNION {o.treatment : o \in {x \in StartStore.Compound : x.id = id}}

\* C9 amended: the links are the names of the cell other than "-", each one
\* Treatment row, together with the links the Compound already had and the
\* links of the other rows that resolve to the same Compound
C9_TreatmentLinks ==
  Returned
    => \A e \in Imported :
         /\ \A n \in TreatmentNames(e.r) \ {<<"-">>} :
              Cardinality({t \in store.Treatment : t.name = n}) = 1
         /\ TreatmentsNamed(TreatmentNames(e.r) \ {<<"-">>})
              \subseteq CompoundById(store, e.obj).treatment
         /\ CompoundById(store, e.obj).treatment
              = LinksBefore(e.obj)
                \cup UNION {TreatmentsNamed(TreatmentNames(f.r) \ {<<"-">>}) :
                              f \in {x \in Imported : x.obj = e.obj}}

\* a row with the cell "H; L ;H" whose Compound has exactly two links
C9_Witness ==
  /\ Returned
  /\ \E e \in Imported :
       /\ e.r["treatment"] = Str(<<"H", ";", " ", "L", " ", ";", "H">>)
       /\ Cardinality(CompoundById(store, e.obj).treatment) = 2
       /\ TreatmentNames(e.r) = {<<"H">>, <<"L">>}

\* upload a was uploaded before upload b
Older(a, b) ==
  uploads[a].uploaded_at < uploads[b].uploaded_at

\* C10: process_pending(N) processes at most N jobs, all of them pending when
\* it selected, each once, in ascending uploaded_at order, never one while an
\* older pending job stays unprocessed, and min(N, pending) of them in all
C10_OldestFirst ==
  LET p == run.processed
  IN  /\ Len(p) <= run.max_files
      /\ \A i \in 1..Len(p) : p[i] \in run.pending
      /\ \A i, j \in 1..Len(p) : i < j => p[i] # p[j] /\ ~Older(p[j], p[i])
      /\ \A i \in 1..Len(p) :
           \A k \in run.pending \ {p[j] : j \in 1..i} : ~Older(k, p[i])
      /\ (run.pc = "idle" /\ run.pending # {})
           => Len(p) = Min(run.max_files, Cardinality(run.pending))

\* a call that returned after processing the older of two pending jobs
C10_Witness ==
  /\ run.pc = "idle"
  /\ run.max_files = 1
  /\ Len(run.processed) = 1
  /\ \E k \in run.pending : Older(run.processed[1], k)

C12_ErrorIsFinal ==
  [][\A j \in DOMAIN uploads :
       uploads[j].status = "error"
         => /\ uploads'[j].status = "error"
            /\ uploads'[j].records_imported = uploads[j].records_imported
            /\ uploads'[j].error_message = uploads[j].error_message]_vars

\* the job process_upload has finished with
Finished(j) ==
  ~(run.obj = j /\ run.pc \notin {"loop", "idle"})

\* C13: a job left 'completed' has records_imported = the returned count and
\* error_message null; a job left 'error' has error_message = the exception
\* text and the records_imported it had before it was processed
C13_TransitionFields ==
  (run.obj # 0 /\ Finished(run.obj))
    => LET u == uploads[run.obj]
       IN  /\ u.status = "completed"
                => u.records_imported = run.count /\ u.error_message = Null
           /\ u.status = "error"
                => /\ u.error_message = run.exc
                   /\ u.records_imported = run.before.records_imported

\* the import events of the audit log that carry the file of job j
ImportEvents(j) ==
  {i \in 1..Len(events) :
     events[i].event_type = "import" /\ events[i].extra_data.filename = j}

C15_NoDuplicateKeys ==
  /\ \A a, b \in store.Class : a.name = b.name => a = b
  /\ \A a, b \in store.Subclass : a.name = b.name => a = b
  /\ \A a, b \in store.Treatment : a.name = b.name => a = b
  /\ \A a, b \in store.Reference : a.value = b.value => a = b
  /\ \A a, b \in store.FormulaMass :
       (a.formula = b.formula /\ a.mass = b.mass) => a = b

\* a second import of a worksheet, after which one FormulaMass row is linked
\* from two Compounds and the store holds Treatments and a Reference
C15_Witness ==
  /\ call.rerun
  /\ store.Treatment # {} /\ store.Reference # {}
  /\ \E f \in store.FormulaMass :
       Cardinality({o \in store.Compound : f.id \in o.formulas}) = 2

\* C16: every Compound is 'original' or 'TP'; an 'original' has no origin;
\* the origin of a 'TP', when it has one, is a stored 'original' Compound
\* other than itself
C16_OriginShape ==
  \A o \in store.Compound :
    /\ o.type \in {"original", "TP"}
    /\ o.type = "original" => o.origin = NoId
    /\ (o.type = "TP" /\ o.origin # NoId)
         => \E p \in store.Compound :
              p.id = o.origin /\ p.type = "original" /\ p.id # o.id

\* a store with a transformation product linked to its original
C16_Witness ==
  /\ Returned
  /\ \E o \in store.Compound : o.type = "TP" /\ o.origin # NoId

\* C19: an import with clear=True starts pass 1 on a store without rows, so
\* no row that existed before the import is in the store it leaves
C19_ClearStartsEmpty ==
  (Returned /\ call.clear)
    => /\ TotalRows(StartStore) = 0
       /\ Ids(store.Class) \cap Ids(call.pre.Class) = {}
       /\ Ids(store.Subclass) \cap Ids(call.pre.Subclass) = {}
       /\ Ids(store.Treatment) \cap Ids(call.pre.Treatment) = {}
       /\ Ids(store.Reference) \cap Ids(call.pre.Reference) = {}
       /\ Ids(store.FormulaMass) \cap Ids(call.pre.FormulaMass) = {}
       /\ Ids(store.Compound) \cap Ids(call.pre.Compound) = {}

\* an import with clear=True on a store that held the Class, the Treatment
\* and the Compound its worksheet names
C19_Witness ==
  /\ Returned /\ call.clear
  /\ \E o \in store.Class, p \in call.pre.Class : o.name = p.name
  /\ \E o \in store.Treatment, p \in call.pre.Treatment : o.name = p.name
  /\ \E o \in store.Compound, p \in call.pre.Compound :
       CompoundKey(o) = [CompoundKey(p) EXCEPT !.clas = o.clas,
                                               !.subclass = o.subclass]

\* the rows of worksheet ws that pass 1 does not skip
DataRows(ws) ==
  {i \in 1..Len(ws.rows) : ~ws.rows[i][ws.col0].none}

\* C17: an import of a worksheet that has every required column, whatever
\* optional columns it lacks, returns without error and leaves a Compound
\* for each of its rows
C17_OptionalColumnsAccepted ==
  (call.entry # "none" /\ call.ws.readable
     /\ RequiredHeader \subseteq call.ws.header)
    => /\ call.err = NoErr
       /\ \A i \in DataRows(call.ws) :
            \E o \in store.Compound :
              o.name = field(call.ws.rows[i], "compound")

\* the rows and links of db with every molecule_image left out
NoImages(db) ==
  [Records(db) EXCEPT
     !.Compound = {[o EXCEPT !.molecule_image = FALSE] : o \in @}]

C20_ReferentialIntegrity ==
  /\ \A x \in store.Subclass : x.clas \in Ids(store.Class)
  /\ \A o \in store.Compound :
       /\ o.clas \in Ids(store.Class)
       /\ o.subclass \in Ids(store.Subclass)
       /\ o.origin = NoId \/ o.origin \in Ids(store.Compound)
       /\ o.treatment \subseteq Ids(store.Treatment)
       /\ o.references \subseteq Ids(store.Reference)
       /\ o.formulas \subseteq Ids(store.FormulaMass)

\* after the deletion of a Class, a Compound of the last import is gone
\* although the Class and the Subclass it was created under are still stored:
\* it went with its origin
C20_Witness ==
  /\ Returned
  /\ \E e \in Imported :
       /\ e.obj \notin Ids(store.Compound)
       /\ \E k \in store.Class :
            k.name = field(e.r, "compound class") /\ k.id < e.obj
       /\ \E k \in store.Subclass :
            k.name = field(e.r, "subclass") /\ k.id < e.obj

\* C22: a runner moves a job to 'processing' only when the stored status of
\* the job is still 'pending', so no job is taken by two runners
C22_ClaimedOnce ==
  [][\A j \in DOMAIN uploads :
       (run.pc = "process_upload" /\ run.obj = j /\ run'.pc = "import")
         => uploads[j].status = "pending"]_vars

\* C24: when the import_excel command fails during ingestion, the records of
\* the store are those it held before the command, also with --clear
C24_CommandAllOrNothing ==
  (call.entry = "command" /\ call.err \notin {NoErr, "LoadError"})
    => Records(store) = Records(call.pre)

\* the literal the mode cell of row r is compared with
ModeLiteral(r) ==
  IF field(r, "type") = T_original THEN T_positive ELSE T_positivo

\* C25: the stored mode of the Compound of an 'original' row is true iff the
\* mode cell is "positive", that of a transformation-product row iff the mode
\* cell is "positivo"
C25_ModeLiterals ==
  Returned
    => \A e \in Imported :
         CompoundById(store, e.obj).mode
           = (field(e.r, "ionization mode") = ModeLiteral(e.r))

\* an import with a "positive" original stored with mode true, a "positive"
\* transformation product stored with mode false
C25_Witness ==
  /\ Returned
  /\ \E e, f \in Imported :
       /\ field(e.r, "type") = T_original
       /\ field(e.r, "ionization mode") = T_positive
       /\ CompoundById(store, e.obj).mode
       /\ field(f.r, "type") # T_original
       /\ field(f.r, "ionization mode") = T_positive
       /\ ~CompoundById(store, f.obj).mode

\* worksheet ws without the rows whose first cell is empty
Compact(ws) ==
  [ws EXCEPT !.rows = SelectSeq(@, LAMBDA r : ~r[ws.col0].none)]

\* C26: the import of a worksheet ends as the import of the same worksheet
\* without its rows of empty first cell: same rows and links, same count,
\* same exception or none
C26_BlankRowsSkipped ==
  call.entry # "none"
    => \A res \in {import_excel(call.pre, Compact(call.ws), call.clear,
                                 call.skip_images, renderer)} :
         /\ call.err = res.err
         /\ call.count = res.count
         /\ Records(store) = Records(res.db)

\* an import that returned on a worksheet with a row of empty first cell
\* followed by a row that became a Compound
C26_Witness ==
  /\ Returned
  /\ \E i, j \in 1..Len(call.ws.rows) :
       /\ i < j
       /\ call.ws.rows[i][call.ws.col0].none
       /\ \E e \in Imported :
            e.r = call.ws.rows[j] /\ e.obj \in Ids(store.Compound)

\* C30: the Subclass of every Compound belongs to the Class of the Compound
C30_SubclassOfClass ==
  \A o \in store.Compound :
    \E x \in store.Subclass : x.id = o.subclass /\ x.clas = o.clas

\* C21: after an import that returned, every data row of non-empty first
\* cell has a stored Compound of its name, type, formula, m/z, SMILES and
\* notes, and no two stored Compounds carry the same combination
C21_EveryRowStored ==
  Returned
    => /\ \A i \in 1..Len(call.ws.rows) :
            LET r == call.ws.rows[i]
            IN  ~r[call.ws.col0].none
                  => \E o \in store.Compound :
                       /\ o.name = field(r, "compound")
                       /\ (o.type = "original") = (field(r, "type") = T_original)
                       /\ o.neutral_formula = or_empty(r["molecular formula [m]"])
                       /\ o.smile = or_empty(r["smile neutral formula"])
                       /\ o.notes = field(r, "notes")
       /\ \A o, q \in store.Compound :
            CompoundKey(o) = CompoundKey(q) => o.id = q.id

\* C27: an import or a regenerate_molecules run without --force makes no
\* renderer call for a Compound that had a molecule_image before it, and the
\* Compound still has its molecule_image
C27_NoRegenerationUnforced ==
  (call.entry # "none" /\ ~call.force)
    => \A o \in call.pre.Compound :
         o.molecule_image
           => /\ o.id \notin call.rendered
              /\ \A q \in store.Compound : q.id = o.id => q.molecule_image

\* regenerate_molecules without --force has run on a store holding a
\* Compound with an image that the renderer would render again
C27_Witness ==
  /\ call.entry = "regenerate"
  /\ ~call.force
  /\ renderer.available
  /\ \E o \in call.pre.Compound :
       /\ o.molecule_image
       /\ o.smile \in renderer.parses
       /\ o \in store.Compound

\* C28: the message and the response of magic_link_request to a POST with a
\* non-empty email are those of the same request made while no CustomUser
\* has the email, and while one CustomUser has it
C28_NoEnumeration ==
  (/\ web.view = "magic_link_request"
   /\ web.request.method = "POST"
   /\ strip(web.request.email) # <<>>)
    => \A users \in {{u \in web.users : u.email # strip(web.request.email)},
                      web.users \cup {[id |-> 0,
                                       email |-> strip(web.request.email)]}} :
         magic_link_request(web.request.method, web.request.email, users,
                            web.request.mail_ok) = web.response

\* the query parameter v is absent or a text int() accepts
IsInteger(v, default) ==
  int(v, default).ok

\* C29: compounds_api uses a page size in 1..100 and a page of at least 1;
\* integer parameters are clamped, an absent page_size is 20, and one
\* non-integer parameter makes the page 1 and the page size 20
C29_PageClamped ==
  (web.view = "compounds_api" /\ web.response # <<>>)
    => LET p == web.request.page
           z == web.request.page_size
           r == web.response
       IN  /\ r.page_size \in 1..100
           /\ r.page >= 1
           /\ (IsInteger(p, 1) /\ IsInteger(z, 20))
                => /\ z.none => r.page_size = 20
                   /\ int(z, 20).value \in 1..100
                        => r.page_size = int(z, 20).value
                   /\ int(z, 20).value > 100 => r.page_size = 100
                   /\ int(z, 20).value < 1 => r.page_size = 1
                   /\ r.page = Max(int(p, 1).value, 1)
           /\ ~(IsInteger(p, 1) /\ IsInteger(z, 20))
                => r.page = 1 /\ r.page_size = 20

\* a request with an integer page_size above 100, answered with 100
C29_Witness ==
  /\ web.view = "compounds_api"
  /\ web.response # <<>>
  /\ IsInteger(web.request.page, 1)
  /\ IsInteger(web.request.page_size, 20)
  /\ int(web.request.page_size, 20).value > 100
  /\ web.response.page_size = 100

\* the values of the lookup key of the rows of a table
LookupKeys(db) ==
  [Class |-> {<<o.name>> : o \in db.Class},
   Subclass |-> {<<o.name>> : o \in db.Subclass},
   Treatment |-> {<<o.name>> : o \in db.Treatment},
   Reference |-> {<<o.value>> : o \in db.Reference},
   FormulaMass |-> {<<o.formula, o.mass>> : o \in db.FormulaMass}]

\* C23: whatever the interleaving of two imports, neither ends with a
\* duplicate-key exception and the committed store holds one row for every
\* lookup key
C23_OneRowPerKey ==
  /\ \A w \in DOMAIN txn :
       txn[w].err \notin {"IntegrityError", "MultipleObjectsReturned"}
  /\ \A table \in DOMAIN LookupKeys(store) :
       Cardinality(LookupKeys(store)[table]) = Cardinality(store[table])

====
